---------------------------- MODULE Spec2Model ----------------------------
(***************************************************************************)
(* A model of the task list manager of src/main.rs: the Task record, the   *)
(* TasksManager operations (add, find, remove, edit, print, store to file, *)
(* read from file) and the JSON text the manager writes and reads.         *)
(*                                                                         *)
(* Text is a sequence of one-character strings, so that escaping, parsing  *)
(* and case-sensitive comparison are computed, not assumed.                *)
(***************************************************************************)
EXTENDS Integers, Sequences, FiniteSets, TLC

VARIABLES
    tasks,   \* TasksManager.tasks: the Vec<Task> of the running manager
    fs,      \* the file system: path -> the file's text, or NoFile
    out,     \* what the last call returned (Result<String, String>) or printed
    saved,   \* history: path -> the task sequence a successful store wrote there
    fresh,   \* history: the manager held no task when the last call began
    hist     \* history (kept under SpecCrud): the names given to tasks and removed

vars == <<tasks, fs, out, saved, fresh, hist>>

(***************************************************************************)
(* Bounds of the model.                                                    *)
(***************************************************************************)
\* The longest task list the model lets add_task build.
MaxTasks == 2
\* The most characters a failing write leaves in the file it created.
MaxPartial == 1

(***************************************************************************)
(* Priority and Task.                                                      *)
(***************************************************************************)
Priority == {"Low", "Medium", "High"}

\* Priority::to_string: the label print_task shows.
to_string(p) ==
    CASE p = "Low" -> <<"L", "o", "w">>
      [] p = "Medium" -> <<"M", "e", "d", "i", "u", "m">>
      [] p = "High" -> <<"H", "i", "g", "h">>

\* What the console hands to Task::new: a name, a description, a priority.
Drafts ==
    { [name |-> <<"a">>, description |-> <<>>, priority |-> "Low"],
      [name |-> <<"A">>, description |-> <<"\"", "\\", "n">>, priority |-> "High"] }

\* The values Local::now() takes: a whole second, and an instant with a
\* sub-second part in another second.
Clock == { [secs |-> 1, nanos |-> 0], [secs |-> 0, nanos |-> 5] }

\* Task::new: the three given fields and the creation time.
Task(draft, now) ==
    [name |-> draft.name, description |-> draft.description,
     priority |-> draft.priority, add_time |-> now]

\* The names the console may ask the manager about: those of the drafts and
\* one no draft has.
Names == {d.name : d \in Drafts} \cup {<<"n">>}

\* Option<usize>: None, or a zero-based index.
None == -1

(***************************************************************************)
(* The JSON text of a task list (serde_json over the derived Serialize and *)
(* Deserialize of Task and Priority).                                      *)
(***************************************************************************)
Digits == <<"0", "1", "2", "3", "4", "5", "6", "7", "8", "9">>

\* The object keys: the field names of struct Task.
KeyName == <<"n", "a", "m", "e">>
KeyDescription == <<"d", "e", "s", "c", "r", "i", "p", "t", "i", "o", "n">>
KeyPriority == <<"p", "r", "i", "o", "r", "i", "t", "y">>
KeyAddTime == <<"a", "d", "d", "_", "t", "i", "m", "e">>
TaskKeys == {KeyName, KeyDescription, KeyPriority, KeyAddTime}

\* A unit variant is written as its name.
VariantName(p) ==
    CASE p = "Low" -> <<"L", "o", "w">>
      [] p = "Medium" -> <<"M", "e", "d", "i", "u", "m">>
      [] p = "High" -> <<"H", "i", "g", "h">>

\* A faulty variant of TimeText: the time written as the console shows it,
\* in whole seconds.
TimeTextWholeSeconds(t) == <<Digits[t.secs + 1]>>

\* DateTime<Local> is written as a string: the seconds, and the fraction
\* only when it is not zero (the date, the hour and the offset, which no
\* operation of the model varies, are left out of the text).
TimeText(t) ==
    <<Digits[t.secs + 1]>> \o
    (IF t.nanos = 0 THEN <<>> ELSE <<".", Digits[t.nanos + 1]>>)

\* One character of a string as JSON writes it.
EscapeChar(c) ==
    CASE c = "\"" -> <<"\\", "\"">>
      [] c = "\\" -> <<"\\", "\\">>
      [] c = "\n" -> <<"\\", "n">>
      [] c = "\t" -> <<"\\", "t">>
      [] OTHER -> <<c>>

RECURSIVE Escape(_)
Escape(s) == IF s = <<>> THEN <<>> ELSE EscapeChar(Head(s)) \o Escape(Tail(s))

JsonString(s) == <<"\"">> \o Escape(s) \o <<"\"">>

\* One task as a JSON object, the fields in declaration order.
TaskJson(t) ==
    <<"{">> \o JsonString(KeyName) \o <<":">> \o JsonString(t.name)
    \o <<",">> \o JsonString(KeyDescription) \o <<":">> \o JsonString(t.description)
    \o <<",">> \o JsonString(KeyPriority) \o <<":">> \o JsonString(VariantName(t.priority))
    \o <<",">> \o JsonString(KeyAddTime) \o <<":">> \o JsonString(TimeText(t.add_time))
    \o <<"}">>

RECURSIVE Elements(_, _)
Elements(ts, i) ==
    IF i > Len(ts) THEN <<>>
    ELSE (IF i > 1 THEN <<",">> ELSE <<>>) \o TaskJson(ts[i]) \o Elements(ts, i + 1)

\* serde_json::to_writer(&file, &self.tasks): the compact JSON array.
to_writer(ts) == <<"[">> \o Elements(ts, 1) \o <<"]">>

\* A failed parse, and a successful one: the value and the next position.
Fail == [ok |-> FALSE, val |-> <<>>, next |-> 0]
Parsed(v, n) == [ok |-> TRUE, val |-> v, next |-> n]

Whitespace == {" ", "\n", "\t", "\r"}

RECURSIVE SkipWs(_, _)
SkipWs(s, i) == IF i <= Len(s) /\ s[i] \in Whitespace THEN SkipWs(s, i + 1) ELSE i

\* The character an escape stands for (\b and \u are not in the model's
\* alphabet and no file of the model holds them).
Unescape(c) ==
    CASE c = "\"" -> "\""
      [] c = "\\" -> "\\"
      [] c = "/" -> "/"
      [] c = "n" -> "\n"
      [] c = "t" -> "\t"
      [] c = "r" -> "\r"
      [] c = "f" -> "\f"

Escapes == {"\"", "\\", "/", "n", "t", "r", "f"}

\* The characters of a string after its opening quote.
RECURSIVE StringBody(_, _, _)
StringBody(s, i, acc) ==
    IF i > Len(s) THEN Fail
    ELSE IF s[i] = "\"" THEN Parsed(acc, i + 1)
    ELSE IF s[i] = "\\" THEN
        IF i + 1 <= Len(s) /\ s[i + 1] \in Escapes
        THEN StringBody(s, i + 2, Append(acc, Unescape(s[i + 1])))
        ELSE Fail
    ELSE IF s[i] \in {"\n", "\t", "\r", "\f"} THEN Fail
    ELSE StringBody(s, i + 1, Append(acc, s[i]))

ParseString(s, i) ==
    IF i <= Len(s) /\ s[i] = "\"" THEN StringBody(s, i + 1, <<>>) ELSE Fail

\* F of the value of x, with x evaluated once.
Then(x, F(_)) == CHOOSE r \in {F(v) : v \in {x}} : TRUE

\* The fields of an object from position i: key, colon, string value, then
\* a comma or the closing brace. A key of Task given twice is an error; a
\* key Task does not have is ignored.
RECURSIVE Fields(_, _, _)
Fields(s, i, got) ==
    Then(ParseString(s, SkipWs(s, i)), LAMBDA k :
      IF ~k.ok THEN Fail
      ELSE Then(SkipWs(s, k.next), LAMBDA c :
        IF c > Len(s) \/ s[c] # ":" THEN Fail
        ELSE Then(ParseString(s, SkipWs(s, c + 1)), LAMBDA v :
          IF ~v.ok THEN Fail
          ELSE IF k.val \in TaskKeys /\ k.val \in DOMAIN got THEN Fail
          ELSE Then(SkipWs(s, v.next), LAMBDA e :
            IF e > Len(s) THEN Fail
            ELSE IF s[e] = ","
            THEN Then(IF k.val \in TaskKeys THEN (k.val :> v.val) @@ got ELSE got,
                      LAMBDA got2 : Fields(s, e + 1, got2))
            ELSE IF s[e] = "}"
            THEN Parsed(IF k.val \in TaskKeys THEN (k.val :> v.val) @@ got ELSE got,
                        e + 1)
            ELSE Fail))))

\* The variant a name stands for; any other name is an error.
ParsePriority(s) ==
    IF \E p \in Priority : VariantName(p) = s
    THEN Parsed(CHOOSE p \in Priority : VariantName(p) = s, 0)
    ELSE Fail

DigitValue(c) == (CHOOSE n \in 1..10 : Digits[n] = c) - 1
IsDigit(c) == \E n \in 1..10 : Digits[n] = c

\* The instant a time string stands for.
ParseTime(s) ==
    IF Len(s) = 1 /\ IsDigit(s[1])
    THEN Parsed([secs |-> DigitValue(s[1]), nanos |-> 0], 0)
    ELSE IF Len(s) = 3 /\ IsDigit(s[1]) /\ s[2] = "." /\ IsDigit(s[3])
    THEN Parsed([secs |-> DigitValue(s[1]), nanos |-> DigitValue(s[3])], 0)
    ELSE Fail

\* One Task from position i: an object with every field of Task, once.
ParseTask(s, i) ==
    IF i > Len(s) \/ s[i] # "{" THEN Fail
    ELSE IF SkipWs(s, i + 1) <= Len(s) /\ s[SkipWs(s, i + 1)] = "}" THEN Fail
    ELSE Then(Fields(s, i + 1, <<>>), LAMBDA f :
           IF ~f.ok THEN Fail
           ELSE IF DOMAIN f.val # TaskKeys THEN Fail
           ELSE Then(ParsePriority(f.val[KeyPriority]), LAMBDA p :
                Then(ParseTime(f.val[KeyAddTime]), LAMBDA t :
                  IF ~p.ok \/ ~t.ok THEN Fail
                  ELSE Parsed([name |-> f.val[KeyName],
                               description |-> f.val[KeyDescription],
                               priority |-> p.val, add_time |-> t.val], f.next))))

\* The tasks of an array from position i, after those of acc.
RECURSIVE ParseElements(_, _, _)
ParseElements(s, i, acc) ==
    Then(ParseTask(s, SkipWs(s, i)), LAMBDA t :
      IF ~t.ok THEN Fail
      ELSE Then(SkipWs(s, t.next), LAMBDA e :
        IF e > Len(s) THEN Fail
        ELSE IF s[e] = ","
        THEN Then(Append(acc, t.val), LAMBDA acc2 : ParseElements(s, e + 1, acc2))
        ELSE IF s[e] = "]" THEN Parsed(Append(acc, t.val), e + 1)
        ELSE Fail))

\* serde_json::from_reader::<Vec<Task>>: the whole text is one array of
\* tasks, with nothing but whitespace after it.
from_reader(s) ==
    Then(SkipWs(s, 1), LAMBDA b :
      IF b > Len(s) \/ s[b] # "[" THEN Fail
      ELSE Then(SkipWs(s, b + 1), LAMBDA j :
        Then(IF j <= Len(s) /\ s[j] = "]" THEN Parsed(<<>>, j + 1)
             ELSE ParseElements(s, b + 1, <<>>), LAMBDA r :
          IF ~r.ok THEN Fail
          ELSE IF SkipWs(s, r.next) <= Len(s) THEN Fail
          ELSE Parsed(r.val, r.next))))

(***************************************************************************)
(* Messages and results.                                                   *)
(***************************************************************************)
\* What a call yields: a tag (Ok and Err of Result<String, String>, Unit
\* for a call that returns nothing, Printed for print_tasks), the format
\* string, and the values formatted into it, in order.
Result(tag, fmt, args) == [tag |-> tag, fmt |-> fmt, args |-> args]
Ok(fmt, args) == Result("Ok", fmt, args)
Err(fmt, args) == Result("Err", fmt, args)
Unit == Result("Unit", "", <<>>)

\* The Display text of a std::io::Error and of a serde_json::Error: neither
\* holds the name of a task or the path of the file.
IoErrorText == <<"o", "s", " ", "e", "r", "r", "o", "r">>
JsonErrorText == <<"l", "i", "n", "e", " ", "1">>

(***************************************************************************)
(* Files.                                                                  *)
(***************************************************************************)
NoFile == [exists |-> FALSE, text |-> <<>>]
File(text) == [exists |-> TRUE, text |-> text]

\* The path no file has when the program starts, and two paths whose files
\* the manager did not write: one whose JSON is not an array, and one that
\* was cut short.
NewPath == <<"n", "e", "w">>
ObjPath == <<"o", "b", "j">>
CutPath == <<"c", "u", "t">>
Paths == {NewPath, ObjPath, CutPath}

CutText ==
    LET full == to_writer(<<Task(CHOOSE d \in Drafts : d.priority = "High",
                                 [secs |-> 0, nanos |-> 5])>>)
    IN  SubSeq(full, 1, Len(full) - 2)

InitialFiles ==
    (NewPath :> NoFile) @@ (ObjPath :> File(<<"{", "}">>)) @@ (CutPath :> File(CutText))

\* What the operating system may answer to File::create and to the writes
\* of to_writer: the file is not created; it is created and every write
\* succeeds; it is created and a write fails after `written` characters.
StoreOutcomes ==
    {[created |-> FALSE, full |-> FALSE, written |-> 0],
     [created |-> TRUE, full |-> TRUE, written |-> 0]}
    \cup {[created |-> TRUE, full |-> FALSE, written |-> n] : n \in 0..MaxPartial}

\* What it may answer to File::open.
ReadOutcomes == {"opened", "open fails"}

(***************************************************************************)
(* TasksManager.                                                           *)
(***************************************************************************)
\* Iterator::position: the zero-based index of the first element from
\* position i on whose name is `name`.
RECURSIVE position(_, _, _)
position(ts, name, i) ==
    IF i > Len(ts) THEN None
    ELSE IF ts[i].name = name THEN i - 1
    ELSE position(ts, name, i + 1)

\* Faulty variants of find_task: the last match instead of the first, and
\* names compared without regard to case.
RECURSIVE rposition(_, _, _)
rposition(ts, name, i) ==
    IF i < 1 THEN None
    ELSE IF ts[i].name = name THEN i - 1
    ELSE rposition(ts, name, i - 1)

find_task_last(ts, name) == rposition(ts, name, Len(ts))

LowerChar(c) == IF c = "A" THEN "a" ELSE c
Lower(s) == [i \in 1..Len(s) |-> LowerChar(s[i])]

RECURSIVE position_ignore_case(_, _, _)
position_ignore_case(ts, name, i) ==
    IF i > Len(ts) THEN None
    ELSE IF Lower(ts[i].name) = Lower(name) THEN i - 1
    ELSE position_ignore_case(ts, name, i + 1)

find_task_ignore_case(ts, name) == position_ignore_case(ts, name, 1)

find_task(ts, name) == position(ts, name, 1)

\* Vec::remove(index), index zero-based.
VecRemove(ts, index) == SubSeq(ts, 1, index) \o SubSeq(ts, index + 2, Len(ts))

\* "%d-%m-%Y %H:%M:%S": whole seconds, no fraction.
format(t) == <<Digits[t.secs + 1]>>

\* Task::print_task: the four values of the printed line.
print_task(t) == <<t.name, to_string(t.priority), format(t.add_time), t.description>>

\* TasksManager::new
new ==
    /\ tasks' = <<>>
    /\ out' = Unit
    /\ fs' = fs

print_tasks ==
    /\ out' = Result("Printed", "{} | {} | {}\n\"{}\"\n",
                     [i \in 1..Len(tasks) |-> print_task(tasks[i])])
    /\ UNCHANGED <<tasks, fs>>

\* A faulty variant of add_task: the task put first.
add_task_front(task) ==
    /\ tasks' = <<task>> \o tasks
    /\ out' = Unit
    /\ fs' = fs

add_task(task) ==
    /\ tasks' = Append(tasks, task)
    /\ out' = Unit
    /\ fs' = fs

\* A faulty variant of remove_task: the last task of that name removed.
remove_task_last(name) ==
    LET index == rposition(tasks, name, Len(tasks))
    IN  /\ IF index # None
           THEN /\ tasks' = VecRemove(tasks, index)
                /\ out' = Ok("Task \"{}\" removed successfully", <<name>>)
           ELSE /\ tasks' = tasks
                /\ out' = Err("Task with name \"{}\" doesn't exist", <<name>>)
        /\ fs' = fs

remove_task(name) ==
    LET index == find_task(tasks, name)
    IN  /\ IF index # None
           THEN /\ tasks' = VecRemove(tasks, index)
                /\ out' = Ok("Task \"{}\" removed successfully", <<name>>)
           ELSE /\ tasks' = tasks
                /\ out' = Err("Task with name \"{}\" doesn't exist", <<name>>)
        /\ fs' = fs

\* A faulty variant of edit_task: the whole task replaced, its creation
\* time with it.
edit_task_replaces(name, updated_task) ==
    LET index == find_task(tasks, name)
    IN  /\ IF index # None
           THEN /\ tasks' = [tasks EXCEPT ![index + 1] = updated_task]
                /\ out' = Ok("Task \"{}\" updated successfully", <<name>>)
           ELSE /\ tasks' = tasks
                /\ out' = Err("Task with name \"{}\" doesn't exist", <<name>>)
        /\ fs' = fs

edit_task(name, updated_task) ==
    LET index == find_task(tasks, name)
    IN  /\ IF index # None
           THEN IF index + 1 \notin DOMAIN tasks
                THEN /\ tasks' = tasks
                     /\ out' = Err("Error fetching task", <<>>)
                ELSE /\ tasks' = [tasks EXCEPT ![index + 1] =
                                    [@ EXCEPT !.name = updated_task.name,
                                              !.description = updated_task.description,
                                              !.priority = updated_task.priority]]
                     /\ out' = Ok("Task \"{}\" updated successfully", <<name>>)
           ELSE /\ tasks' = tasks
                /\ out' = Err("Task with name \"{}\" doesn't exist", <<name>>)
        /\ fs' = fs

\* A faulty variant of store_to_file: no test that the path is free, so
\* File::create truncates the file that is there.
store_to_file_overwrites(filename, os) ==
    /\ tasks' = tasks
    /\ IF ~os.created
       THEN /\ fs' = fs
            /\ out' = Err("Error creating file: {}", <<IoErrorText>>)
       ELSE IF ~os.full
       THEN /\ fs' = [fs EXCEPT ![filename] =
                        File(SubSeq(to_writer(tasks), 1, os.written))]
            /\ out' = Err("Error saving data: {}", <<JsonErrorText>>)
       ELSE /\ fs' = [fs EXCEPT ![filename] = File(to_writer(tasks))]
            /\ out' = Ok("Data stored successfully", <<>>)

store_to_file(filename, os) ==
    /\ tasks' = tasks
    /\ IF ~fs[filename].exists
       THEN IF ~os.created
            THEN /\ fs' = fs
                 /\ out' = Err("Error creating file: {}", <<IoErrorText>>)
            ELSE IF ~os.full
            THEN /\ fs' = [fs EXCEPT ![filename] =
                             File(SubSeq(to_writer(tasks), 1, os.written))]
                 /\ out' = Err("Error saving data: {}", <<JsonErrorText>>)
            ELSE /\ fs' = [fs EXCEPT ![filename] = File(to_writer(tasks))]
                 /\ out' = Ok("Data stored successfully", <<>>)
       ELSE /\ fs' = fs
            /\ out' = Err("File \"{filename}\" already exists", <<>>)

\* Faulty variants of read_from_file: the task list emptied before the text
\* is known to parse, and the tasks read added to those held.
read_from_file_clears(filename, os) ==
    /\ fs' = fs
    /\ IF fs[filename].exists
       THEN IF os = "open fails"
            THEN /\ tasks' = tasks
                 /\ out' = Err("Error creating file: {}", <<IoErrorText>>)
            ELSE LET data == CHOOSE r \in {from_reader(fs[filename].text)} : TRUE
                 IN  IF data.ok
                     THEN /\ tasks' = data.val
                          /\ out' = Ok("Data read successfully", <<>>)
                     ELSE /\ tasks' = <<>>
                          /\ out' = Err("Error reading file: {}", <<JsonErrorText>>)
       ELSE /\ tasks' = tasks
            /\ out' = Err("File \"{}\" doesn't exist", <<filename>>)

read_from_file_merges(filename, os) ==
    /\ fs' = fs
    /\ IF fs[filename].exists
       THEN IF os = "open fails"
            THEN /\ tasks' = tasks
                 /\ out' = Err("Error creating file: {}", <<IoErrorText>>)
            ELSE LET data == CHOOSE r \in {from_reader(fs[filename].text)} : TRUE
                 IN  IF data.ok
                     THEN /\ tasks' = tasks \o data.val
                          /\ out' = Ok("Data read successfully", <<>>)
                     ELSE /\ tasks' = tasks
                          /\ out' = Err("Error reading file: {}", <<JsonErrorText>>)
       ELSE /\ tasks' = tasks
            /\ out' = Err("File \"{}\" doesn't exist", <<filename>>)

read_from_file(filename, os) ==
    /\ fs' = fs
    /\ IF fs[filename].exists
       THEN IF os = "open fails"
            THEN /\ tasks' = tasks
                 /\ out' = Err("Error creating file: {}", <<IoErrorText>>)
            ELSE LET data == CHOOSE r \in {from_reader(fs[filename].text)} : TRUE
                 IN  IF data.ok
                     THEN /\ tasks' = data.val
                          /\ out' = Ok("Data read successfully", <<>>)
                     ELSE /\ tasks' = tasks
                          /\ out' = Err("Error reading file: {}", <<JsonErrorText>>)
       ELSE /\ tasks' = tasks
            /\ out' = Err("File \"{}\" doesn't exist", <<filename>>)

(***************************************************************************)
(* The program: the commands of ConsoleManager::process_command, each one  *)
(* call of the manager, and a restart of the program.                      *)
(***************************************************************************)
\* No name has been given to a task or removed.
NoHistory == [given |-> {}, removed |-> {}]

Init ==
    /\ tasks = <<>>
    /\ fs = InitialFiles
    /\ out = Unit
    /\ saved = [p \in Paths |-> [some |-> FALSE, val |-> <<>>]]
    /\ fresh = TRUE
    /\ hist = NoHistory

\* The history every call keeps: whether it began on an empty manager.
Began == fresh' = (tasks = <<>>)

\* main() starts again: ConsoleManager::new makes a new TasksManager. The
\* files stay.
Restart == new /\ Began /\ UNCHANGED <<saved, hist>>

\* Command 5.
PrintTasks == print_tasks /\ Began /\ UNCHANGED <<saved, hist>>

\* Command 1: Task::new_from_console, then add_task.
AddTask ==
    /\ Len(tasks) < MaxTasks
    /\ \E d \in Drafts, now \in Clock : add_task(Task(d, now))
    /\ Began
    /\ UNCHANGED <<saved, hist>>

\* Command 4.
RemoveTask ==
    /\ \E name \in Names : remove_task(name)
    /\ Began
    /\ UNCHANGED <<saved, hist>>

\* Command 3: the name, Task::new_from_console, then edit_task.
EditTask ==
    /\ \E name \in Names, d \in Drafts, now \in Clock : edit_task(name, Task(d, now))
    /\ Began
    /\ UNCHANGED <<saved, hist>>

\* The answers the operating system can give a store_to_file of the task
\* list: none is asked for when the path has a file, and a write that fails
\* leaves fewer characters than the text has.
StoreAnswers(filename) ==
    IF fs[filename].exists
    THEN {[created |-> FALSE, full |-> FALSE, written |-> 0]}
    ELSE LET n == Len(to_writer(tasks))
         IN  {os \in StoreOutcomes : os.full \/ os.written < n}

\* The answers it can give a read_from_file: none is asked for when the
\* path has no file.
ReadAnswers(filename) == IF fs[filename].exists THEN ReadOutcomes ELSE {"opened"}

\* Command 6.
StoreTasks ==
    /\ \E filename \in Paths : \E os \in StoreAnswers(filename) :
          /\ store_to_file(filename, os)
          /\ saved' = IF out'.tag = "Ok"
                      THEN [saved EXCEPT ![filename] = [some |-> TRUE, val |-> tasks]]
                      ELSE saved
    /\ Began
    /\ UNCHANGED hist

\* Command 7.
ReadTasks ==
    /\ \E filename \in Paths : \E os \in ReadAnswers(filename) :
          read_from_file(filename, os)
    /\ Began
    /\ UNCHANGED <<saved, hist>>

Next ==
    \/ Restart
    \/ PrintTasks
    \/ AddTask
    \/ RemoveTask
    \/ EditTask
    \/ StoreTasks
    \/ ReadTasks

Spec == Init /\ [][Next]_vars

(***************************************************************************)
(* The same add, edit and remove with the history of names kept: the names *)
(* add or a successful edit has given to a task, and the names a           *)
(* successful remove was given and no task has been given since.           *)
(***************************************************************************)
CrudAdd ==
    /\ Len(tasks) < MaxTasks
    /\ \E d \in Drafts, now \in Clock :
          /\ add_task(Task(d, now))
          /\ hist' = [given |-> hist.given \cup {d.name},
                      removed |-> hist.removed \ {d.name}]
    /\ Began
    /\ UNCHANGED saved

CrudRemove ==
    /\ \E name \in Names :
          /\ remove_task(name)
          /\ hist' = IF out'.tag = "Ok"
                     THEN [hist EXCEPT !.removed = @ \cup {name}]
                     ELSE hist
    /\ Began
    /\ UNCHANGED saved

CrudEdit ==
    /\ \E name \in Names, d \in Drafts, now \in Clock :
          /\ edit_task(name, Task(d, now))
          /\ hist' = IF out'.tag = "Ok"
                     THEN [given |-> hist.given \cup {d.name},
                           removed |-> hist.removed \ {d.name}]
                     ELSE hist
    /\ Began
    /\ UNCHANGED saved

NextCrud ==
    \/ CrudAdd
    \/ CrudRemove
    \/ CrudEdit

SpecCrud == Init /\ [][NextCrud]_vars

(***************************************************************************)
(* What the claims are stated with.                                        *)
(***************************************************************************)
\* Some task of ts has the name n; the one-based position of the first of
\* them; how many there are.
HasName(ts, n) == \E i \in 1..Len(ts) : ts[i].name = n
First(ts, n) ==
    CHOOSE k \in 1..Len(ts) : ts[k].name = n /\ \A j \in 1..(k - 1) : ts[j].name # n
Count(ts, n) == Cardinality({i \in 1..Len(ts) : ts[i].name = n})

\* A result names x: x is one of the values formatted into its message.
Mentions(r, x) == \E i \in 1..Len(r.args) : r.args[i] = x

\* What a read_from_file that succeeds returns.
DataRead == Ok("Data read successfully", <<>>)

\* The file at f is not one a store of the manager completed.
Foreign(f) == fs[f].exists /\ ~saved[f].some

(***************************************************************************)
(* The claims.                                                             *)
(***************************************************************************)

\* C1: a read_from_file that fails leaves the task list as it was (no step
\* that returns an error and changes the list is a read_from_file). It fails
\* with "doesn't exist" for a path with no file, and it does not succeed on
\* a file whose text is not a task array (not JSON of that shape, or cut
\* short).
C1_FailedLoadKeepsTasks ==
    [][\A f \in Paths, os \in ReadOutcomes :
         /\ (out'.tag = "Err" /\ tasks' # tasks) => ~read_from_file(f, os)
         /\ (~fs[f].exists /\ read_from_file(f, os)) =>
              out' = Err("File \"{}\" doesn't exist", <<f>>)
         /\ (Foreign(f) /\ out' = DataRead) => ~read_from_file(f, os)]_vars

\* C1: a load of a malformed file has just failed and the manager still
\* holds its two tasks.
C1_Witness ==
    /\ out = Err("Error reading file: {}", <<JsonErrorText>>)
    /\ Len(tasks) = 2

\* C2: store_to_file to a path that has a file fails with the "already
\* exists" error, and no step of the manager changes a file that exists.
C2_ExistingFileNeverChanges ==
    [][\A f \in Paths :
         fs[f].exists =>
           /\ fs'[f] = fs[f]
           /\ \A os \in StoreOutcomes :
                store_to_file(f, os) =>
                  /\ out'.tag = "Err"
                  /\ out'.fmt = "File \"{filename}\" already exists"]_vars

\* C2: a store has just been refused while the manager holds other tasks
\* than the ones the file at NewPath was written from, and that file still
\* holds the text first written.
C2_Witness ==
    /\ out.tag = "Err"
    /\ out.fmt = "File \"{filename}\" already exists"
    /\ saved[NewPath].some
    /\ tasks # saved[NewPath].val
    /\ fs[NewPath] = File(to_writer(saved[NewPath].val))

\* C3: after a successful store of a task list to a path, read_from_file of
\* that path into a manager holding no task succeeds and leaves the manager
\* holding an equal list: the same tasks, field by field, in the same order.
C3_RoundTrip ==
    [][\A f \in Paths :
         (tasks = <<>> /\ saved[f].some /\ read_from_file(f, "opened")) =>
           /\ out' = DataRead
           /\ Len(tasks') = Len(saved[f].val)
           /\ \A i \in 1..Len(tasks') :
                /\ tasks'[i].name = saved[f].val[i].name
                /\ tasks'[i].description = saved[f].val[i].description
                /\ tasks'[i].priority = saved[f].val[i].priority
                /\ tasks'[i].add_time = saved[f].val[i].add_time]_vars

\* C3: an empty manager has just read back two different stored tasks, one
\* with characters JSON escapes and a sub-second creation time.
C3_Witness ==
    /\ out = DataRead
    /\ fresh
    /\ Len(tasks) = 2
    /\ tasks[1] # tasks[2]
    /\ \E f \in Paths : saved[f].some /\ saved[f].val = tasks
    /\ \E i \in 1..2 : "\\" \in {tasks[i].description[j] : j \in 1..Len(tasks[i].description)}
    /\ \E i \in 1..2 : tasks[i].add_time.nanos # 0

\* C4 as stated: find_task returns None for every name that was never added
\* (never given to a task, by add or by edit) or that has been removed (and
\* not given to a task since).
C4_NoneIfNeverAddedOrRemoved ==
    \A n \in Names :
        (n \notin hist.given \/ n \in hist.removed) => find_task(tasks, n) = None

\* C4 as amended: find_task returns None for every name that neither add nor
\* a successful edit has given to a task, and right after a successful
\* remove of a name that exactly one task had.
C4_NoneIfNeverGivenOrSoleRemoved ==
    [][\A n \in Names :
         /\ n \notin hist'.given => find_task(tasks', n) = None
         /\ (remove_task(n) /\ Count(tasks, n) = 1) => find_task(tasks', n) = None]_vars

\* C4: the only task of a name has just been removed, another task is still
\* held, and neither the removed name nor a name never given is found.
C4_Witness ==
    /\ out.tag = "Ok"
    /\ out.fmt = "Task \"{}\" removed successfully"
    /\ tasks # <<>>
    /\ find_task(tasks, out.args[1]) = None
    /\ \E n \in Names \ hist.given : find_task(tasks, n) = None

C6_EditKeepsTimeAndOthers ==
    [][\A n \in Names, d \in Drafts, now \in Clock :
         edit_task(n, Task(d, now)) =>
           IF HasName(tasks, n)
           THEN /\ out' = Ok("Task \"{}\" updated successfully", <<n>>)
                /\ Len(tasks') = Len(tasks)
                /\ \A i \in 1..Len(tasks) :
                     IF i = First(tasks, n)
                     THEN /\ tasks'[i].name = d.name
                          /\ tasks'[i].description = d.description
                          /\ tasks'[i].priority = d.priority
                          /\ tasks'[i].add_time = tasks[i].add_time
                     ELSE tasks'[i] = tasks[i]
           ELSE /\ out' = Err("Task with name \"{}\" doesn't exist", <<n>>)
                /\ tasks' = tasks]_vars

\* C6: an edit has just renamed the first of two tasks: the old name is no
\* longer found, and the two tasks now differ in their creation time alone.
C6_Witness ==
    /\ out.tag = "Ok"
    /\ out.fmt = "Task \"{}\" updated successfully"
    /\ Len(tasks) = 2
    /\ find_task(tasks, out.args[1]) = None
    /\ tasks[1].add_time # tasks[2].add_time
    /\ [tasks[1] EXCEPT !.add_time = tasks[2].add_time] = tasks[2]

\* C7: find_task returns the index of the first task whose name is exactly
\* the one asked for (A is not a), also when several tasks have it, and
\* None exactly when no task has it.
C7_FindFirstExactMatch ==
    \A n \in Names :
        LET r == find_task(tasks, n)
        IN  /\ r = None <=> ~HasName(tasks, n)
            /\ r # None =>
                 /\ r \in 0..(Len(tasks) - 1)
                 /\ tasks[r + 1].name = n
                 /\ \A j \in 1..r : tasks[j].name # n

\* C7: two different tasks have the same name and find_task gives the first.
C7_Witness ==
    /\ Len(tasks) = 2
    /\ tasks[1].name = tasks[2].name
    /\ tasks[1] # tasks[2]
    /\ find_task(tasks, tasks[2].name) = 0
    /\ find_task(tasks, <<"A">>) = None

\* C8: add_task returns nothing, puts the task last whatever the list holds
\* and keeps the tasks before it in place; print_tasks changes nothing and
\* prints one line per task, in the order of the list.
C8_AddAppendsPrintInOrder ==
    [][/\ \A d \in Drafts, now \in Clock :
            add_task(Task(d, now)) =>
              /\ out'.tag = "Unit"
              /\ Len(tasks') = Len(tasks) + 1
              /\ tasks'[Len(tasks')] = Task(d, now)
              /\ \A i \in 1..Len(tasks) : tasks'[i] = tasks[i]
       /\ print_tasks =>
            /\ tasks' = tasks
            /\ Len(out'.args) = Len(tasks)
            /\ \A i \in 1..Len(tasks) :
                 /\ out'.args[i][1] = tasks[i].name
                 /\ out'.args[i][4] = tasks[i].description]_vars

\* C8: two tasks of one name are held, the one created later first, and
\* have just been printed in the order of the list.
C8_Witness ==
    /\ out.tag = "Printed"
    /\ Len(out.args) = 2
    /\ Len(tasks) = 2
    /\ tasks[1].name = tasks[2].name
    /\ tasks[1].add_time.secs > tasks[2].add_time.secs
    /\ out.args[1][3] # out.args[2][3]

\* C9: a read_from_file that succeeds leaves the manager holding exactly the
\* list the file was written from, whatever it held before.
C9_LoadReplaces ==
    [][\A f \in Paths, os \in ReadOutcomes :
         (out' = DataRead /\ read_from_file(f, os)) =>
           /\ saved[f].some
           /\ tasks' = saved[f].val]_vars

\* C9: a manager that held tasks has just read a file written from an empty
\* list, and holds none.
C9_Witness ==
    /\ out = DataRead
    /\ ~fresh
    /\ tasks = <<>>

\* C10: every error a manager operation returns names the task or the path
\* it is about.
C10_ErrorsNameTheirSubject ==
    out.tag = "Err" => \E x \in Names \cup Paths : Mentions(out, x)

====
